---- MODULE Spec2Model ----
(***************************************************************************)
(* Model of backend/src/main.py: the /api/screen request handler           *)
(* (screen_candidates) with its helpers extract_pdf_text,                  *)
(* mock_score_candidate, coerce_json_from_model, truncate_for_model and    *)
(* openai_score_cv.                                                        *)
(*                                                                         *)
(* Representation.  A Python str is a sequence of one-character strings;   *)
(* a model reply is a sequence of lexical tokens.  A Python float is a     *)
(* record [k, v]: k = "num" with v in thousandths, k = "nan", or k = "inf" *)
(* with v the sign.  An HTTP status of 0 means the request has not ended.  *)
(***************************************************************************)
EXTENDS Integers, Sequences, FiniteSets, TLC

\* ------------------------------------------------------------- bounds
\* Largest number of uploaded files in one request.
MaxFiles == 2
\* Largest number of pages of an uploaded document.
MaxPages == 2

\* ---------------------------------------------------------- constants
MAX_CHARS_PER_CV == 20000

\* ------------------------------------------------------------ strings
IsSpace(c) == c \in {" ", "\n", "\t"}

RECURSIVE LStrip(_)
LStrip(s) ==
    IF s # <<>> /\ IsSpace(Head(s)) THEN LStrip(Tail(s)) ELSE s

RECURSIVE RStrip(_)
RStrip(s) ==
    IF s # <<>> /\ IsSpace(s[Len(s)]) THEN RStrip(SubSeq(s, 1, Len(s) - 1)) ELSE s

\* str.strip()
Strip(s) == RStrip(LStrip(s))

UpperCase == <<"A","B","C","D","E","F","G","H","I","J","K","L","M",
               "N","O","P","Q","R","S","T","U","V","W","X","Y","Z">>
LowerCase == <<"a","b","c","d","e","f","g","h","i","j","k","l","m",
               "n","o","p","q","r","s","t","u","v","w","x","y","z">>

LowerChar(c) ==
    IF \E i \in 1..Len(UpperCase) : UpperCase[i] = c
    THEN LowerCase[CHOOSE i \in 1..Len(UpperCase) : UpperCase[i] = c]
    ELSE c

\* str.lower()
Lower(s) == [i \in 1..Len(s) |-> LowerChar(s[i])]

\* str.endswith(suf)
EndsWith(s, suf) ==
    /\ Len(s) >= Len(suf)
    /\ SubSeq(s, Len(s) - Len(suf) + 1, Len(s)) = suf

\* str.find(c) and str.rfind(c) for a one-character c; 0 stands for -1.
Find(s, c) ==
    IF \E i \in 1..Len(s) : s[i] = c
    THEN CHOOSE i \in 1..Len(s) : s[i] = c /\ \A j \in 1..(i - 1) : s[j] # c
    ELSE 0

RFind(s, c) ==
    IF \E i \in 1..Len(s) : s[i] = c
    THEN CHOOSE i \in 1..Len(s) : s[i] = c /\ \A j \in (i + 1)..Len(s) : s[j] # c
    ELSE 0

\* sep.join(parts)
RECURSIVE Join(_, _)
Join(parts, sep) ==
    IF parts = <<>> THEN <<>>
    ELSE IF Len(parts) = 1 THEN parts[1]
    ELSE parts[1] \o sep \o Join(Tail(parts), sep)

\* str.splitlines(): split at line breaks, no empty last line.
RECURSIVE SplitLines(_)
SplitLines(s) ==
    IF s = <<>> THEN <<>>
    ELSE LET nl == Find(s, "\n")
         IN IF nl = 0 THEN <<s>>
            ELSE <<SubSeq(s, 1, nl - 1)>> \o SplitLines(SubSeq(s, nl + 1, Len(s)))

\* os.path.basename
BaseName(p) == SubSeq(p, RFind(p, "/") + 1, Len(p))

\* os.path.splitext(p)[0]: the extension starts at the last dot of the last
\* component, leading dots of that component not counted.
SplitExtRoot(p) ==
    LET sepIndex == RFind(p, "/")
        dotIndex == RFind(p, ".")
    IN IF dotIndex > sepIndex
          /\ \E i \in (sepIndex + 1)..(dotIndex - 1) : p[i] # "."
       THEN SubSeq(p, 1, dotIndex - 1)
       ELSE p

\* The candidate name of an uploaded file (line 203).
CandidateName(filename) == SplitExtRoot(BaseName(filename))

\* ------------------------------------------------------------- floats
Num(v) == [k |-> "num", v |-> v]
NaN == [k |-> "nan", v |-> 0]

\* a < b on floats: every comparison with NaN is false.
Lt(a, b) ==
    CASE a.k = "nan" \/ b.k = "nan" -> FALSE
      [] a.k = "num" /\ b.k = "num" -> a.v < b.v
      [] a.k = "inf" /\ b.k = "num" -> a.v < 0
      [] a.k = "num" /\ b.k = "inf" -> b.v > 0
      [] OTHER -> a.v < b.v

\* round(x, 2): to the nearest hundredth, NaN and the infinities unchanged.
\* A value midway between two hundredths goes to the even one (the decimal
\* reading of the tie; v is in thousandths).
Round2(x) ==
    IF x.k # "num" THEN x
    ELSE LET q == x.v \div 10
             r == x.v % 10
         IN Num(10 * (IF r < 5 THEN q
                      ELSE IF r > 5 THEN q + 1
                      ELSE IF q % 2 = 0 THEN q ELSE q + 1))

\* min(a, b) and max(a, b) of two floats as Python computes them: the first
\* argument is kept unless the second compares strictly smaller (larger).
PyMin(a, b) == IF Lt(b, a) THEN b ELSE a
PyMax(a, b) == IF Lt(a, b) THEN b ELSE a


\* ----------------------------------------------------- text extraction
\* What the two PDF libraries do on an uploaded document: PdfReader either
\* raises or yields pages, each page's extract_text() raises, returns None or
\* returns a str; pdfminer's extract_text raises, returns None or a str.
Raise == [r |-> "raise", text |-> <<>>]
None == [r |-> "none", text |-> <<>>]
Text(s) == [r |-> "text", text |-> s]

PageOutcomes == {Raise, None, Text(<<"t">>)}
MinerOutcomes == {Raise, None, Text(<<" ">>), Text(<<"m">>)}

PageSeqs == UNION {[1..n -> PageOutcomes] : n \in 0..MaxPages}

Contents ==
    {[reader |-> "raise", pages |-> <<>>, miner |-> m] : m \in MinerOutcomes}
    \cup {[reader |-> "ok", pages |-> ps, miner |-> m] :
            ps \in PageSeqs, m \in MinerOutcomes}

\* Lines 62-66: the texts of the pages whose extraction did not raise.
RECURSIVE PageParts(_)
PageParts(pages) ==
    IF pages = <<>> THEN <<>>
    ELSE IF Head(pages).r = "raise" THEN PageParts(Tail(pages))
    ELSE <<Head(pages).text>> \o PageParts(Tail(pages))

\* Lines 58-69: the primary extractor's text.
PrimaryText(content) ==
    IF content.reader = "raise" THEN <<>>
    ELSE Strip(Join(PageParts(content.pages), <<"\n">>))

\* How the primary extractor fared: PdfReader raised, some page raised, or
\* neither.
ReaderSummary(content) ==
    IF content.reader = "raise" THEN "raise"
    ELSE IF \E i \in 1..Len(content.pages) : content.pages[i].r = "raise"
    THEN "page_raise"
    ELSE "ok"

\* A plausible slip: the secondary extractor run whenever it is installed.
extract_always_fallback(content, miner_available) ==
    LET primary == PrimaryText(content)
        tried == miner_available
    IN [reader |-> ReaderSummary(content),
        miner |-> IF tried THEN content.miner.r ELSE "not_called",
        primary |-> primary,
        tried |-> tried,
        text |-> IF tried /\ content.miner.r # "raise"
                 THEN Strip(content.miner.text) ELSE primary]

\* extract_pdf_text (lines 56-77).  text is the value returned; the other
\* fields record what happened on the way: how the primary extractor fared,
\* the text after the primary stage, whether the secondary extractor was called
\* and, if it was, how it ended.
extract_pdf_text(content, miner_available) ==
    LET primary == PrimaryText(content)
        tried == primary = <<>> /\ miner_available
    IN [reader |-> ReaderSummary(content),
        miner |-> IF tried THEN content.miner.r ELSE "not_called",
        primary |-> primary,
        tried |-> tried,
        text |-> IF tried /\ content.miner.r # "raise"
                 THEN Strip(content.miner.text) ELSE primary]

\* -------------------------------------------------------- mock scoring
Alphabet == LowerCase \o UpperCase \o <<"-", " ", "\n", ":", ".", "/">>

CharCode(c) ==
    IF \E i \in 1..Len(Alphabet) : Alphabet[i] = c
    THEN CHOOSE i \in 1..Len(Alphabet) : Alphabet[i] = c
    ELSE 0

\* Stands for the SHA-1 digest of a str read as an integer: a fixed function
\* of the characters and their positions.
RECURSIVE Digest(_)
Digest(s) ==
    IF s = <<>> THEN 7
    ELSE (31 * Digest(SubSeq(s, 1, Len(s) - 1)) + CharCode(s[Len(s)])) % 65521

\* mock_score_candidate (lines 79-83): the generator seeded with the digest of
\* "name:qualities", one draw of uniform(10, 100), rounded to 2 decimals.
mock_score_candidate(name, qualities) ==
    LET seed == Digest(name \o <<":">> \o qualities)
    IN Round2(Num(10000 + ((seed * 7919) % 90001)))

\* ------------------------------------------------- prompt construction
\* truncate_for_model (lines 110-114).
truncate_for_model(text, max_chars) ==
    IF Len(text) <= max_chars THEN text
    ELSE LET half == max_chars \div 2
         IN SubSeq(text, 1, half) \o <<"\n", ".", ".", ".", "\n">>
            \o SubSeq(text, Len(text) - half + 1, Len(text))

\* The messages of one chat completion (lines 126-141, 148-151).
Messages(qualities_text, cv_text, candidate_name) ==
    [system |-> "You are a careful recruiting screener.",
     user |-> [qualities |-> qualities_text,
               candidate |-> candidate_name,
               cv |-> truncate_for_model(cv_text, MAX_CHARS_PER_CV)]]

\* Lines 194-195: the qualities as a bulleted list.
QualitiesList(qualities) ==
    LET lines == SplitLines(qualities)
    IN [i \in 1..Len(SelectSeq(lines, LAMBDA l : Strip(l) # <<>>)) |->
          Strip(SelectSeq(lines, LAMBDA l : Strip(l) # <<>>)[i])]

QualitiesText(qualities) ==
    LET qualities_list == QualitiesList(qualities)
    IN IF qualities_list # <<>>
       THEN Join([i \in 1..Len(qualities_list) |-> <<"-", " ">> \o qualities_list[i]],
                 <<"\n">>)
       ELSE Strip(qualities)


\* ------------------------------------------------------- JSON recovery
\* A model reply is a sequence of tokens: the fence of three backticks, words ("json",
\* "prose", the number literal "N"), white space, the braces and brackets, and
\* "B" for the members of an object ("score": ..., "reason": ...), whose values
\* the reply carries in its fields score and reason.
Fence == "fence"
IsWord(t) == t \in {"json", "prose", "N"}

RECURSIVE DropWords(_)
DropWords(s) == IF s # <<>> /\ IsWord(Head(s)) THEN DropWords(Tail(s)) ELSE s

\* Line 97, on an s that starts with the fence: the fence, the word characters
\* after it and the white space after those are removed.
StripOpeningFence(s) == LStrip(DropWords(Tail(s)))

\* Line 99: a fence at the very end is removed with the white space before it.
StripClosingFence(s) ==
    IF s # <<>> /\ s[Len(s)] = Fence THEN RStrip(SubSeq(s, 1, Len(s) - 1)) ELSE s

\* Lines 102-105: the span from the first "{" to the last "}".
SliceBraces(s) ==
    LET start == Find(s, "{")
        end == RFind(s, "}")
    IN IF start # 0 /\ end # 0 /\ end > start THEN SubSeq(s, start, end) ELSE s

\* json.loads on tokens: white space between tokens is skipped; the result is
\* an object with members, an empty object, another JSON value, or an error.
JsonLoads(s) ==
    LET t == SelectSeq(s, LAMBDA x : ~IsSpace(x))
    IN CASE t = <<"{", "B", "}">> -> "object"
         [] t = <<"{", "}">> -> "empty_object"
         [] t = <<"N">> -> "value"
         [] t = <<"[", "]">> -> "value"
         [] OTHER -> "error"

\* coerce_json_from_model (lines 85-108); "error" stands for the raise.
coerce_json_from_model(raw) ==
    LET s0 == Strip(raw)
        s1 == IF s0 # <<>> /\ Head(s0) = Fence
              THEN StripClosingFence(StripOpeningFence(s0))
              ELSE s0
    IN JsonLoads(SliceBraces(s1))

\* The value of a member of the reply object.
JNum(v) == [t |-> "num", v |-> v]
JNaN == [t |-> "nan", v |-> 0]
JInf(sign) == [t |-> "inf", v |-> sign]
JNumStr(v) == [t |-> "numstr", v |-> v]
JText == [t |-> "text", v |-> 0]
JNull == [t |-> "null", v |-> 0]
JBool(b) == [t |-> "bool", v |-> b]
JList == [t |-> "list", v |-> 0]
JBigInt == [t |-> "bigint", v |-> 0]
JAbsent == [t |-> "absent", v |-> 0]

\* float(x): ok is FALSE where Python raises (ValueError for a str that is no
\* number, TypeError for None or a list, OverflowError for an int too large).
PyFloat(j) ==
    CASE j.t \in {"num", "numstr"} -> [ok |-> TRUE, f |-> Num(j.v)]
      [] j.t = "nan" -> [ok |-> TRUE, f |-> NaN]
      [] j.t = "inf" -> [ok |-> TRUE, f |-> [k |-> "inf", v |-> j.v]]
      [] j.t = "bool" -> [ok |-> TRUE, f |-> Num(1000 * j.v)]
      [] OTHER -> [ok |-> FALSE, f |-> NaN]

ParseErrorReason == <<"Parse error; defaulted to 50.">>
NeutralScore == Num(50000)

\* A plausible slip: no clamping of the parsed score.
ClampNone(score) == Round2(score)

\* Line 178: max(0.0, min(100.0, round(score, 2))).
Clamp(score) == PyMax(Num(0), PyMin(Num(100000), Round2(score)))

\* A plausible slip: a reply that cannot be parsed scored 0 with no rationale.
ParseReplyZero(reply) ==
    LET kind == coerce_json_from_model(reply.toks)
        member == IF kind = "object" THEN reply.score ELSE JAbsent
        given == IF member.t = "absent" THEN JNum(50000) ELSE member
    IN IF kind \in {"error", "value"} \/ ~PyFloat(given).ok
       THEN [score |-> Num(0), reason |-> <<>>]
       ELSE [score |-> PyFloat(given).f,
             reason |-> IF kind = "object" /\ reply.reason.present
                        THEN Strip(reply.reason.s) ELSE <<>>]

\* Lines 170-176: score and reason of a reply.  A reply that is no JSON raises
\* in coerce_json_from_model, a JSON value that is no object raises in
\* data.get, a score float() rejects raises there: each lands in the except
\* branch.
ParseReply(reply) ==
    LET kind == coerce_json_from_model(reply.toks)
        member == IF kind = "object" THEN reply.score ELSE JAbsent
        given == IF member.t = "absent" THEN JNum(50000) ELSE member
    IN IF kind \in {"error", "value"} \/ ~PyFloat(given).ok
       THEN [score |-> NeutralScore, reason |-> ParseErrorReason]
       ELSE [score |-> PyFloat(given).f,
             reason |-> IF kind = "object" /\ reply.reason.present
                        THEN Strip(reply.reason.s) ELSE <<>>]

\* ----------------------------------------------------- model's replies
Reason(s) == [present |-> TRUE, s |-> s]
NoReason == [present |-> FALSE, s |-> <<>>]

Reply(toks, score, reason) == [toks |-> toks, score |-> score, reason |-> reason]

\* Replies that hold the members of an object.
MemberShapes ==
    { <<"{", "B", "}">>,
      <<Fence, "json", "\n", "{", "B", "}", "\n", Fence>>,
      <<Fence, "\n", "{", "B", "}", "\n", Fence>>,
      <<Fence, "json", "\n", "{", "B", "}">>,
      <<"prose", " ", "{", "B", "}", " ", "prose">>,
      <<"\n", "{", " ", "B", " ", "}", "\n">>,
      <<"{", "B", "}", "{", "B", "}">>,
      <<"{", "B">>,
      <<"B">> }

\* Replies that hold none.
BareShapes ==
    { <<>>,
      <<"prose", " ", "prose">>,
      <<"{", "}">>,
      <<"N">>,
      <<"[", "]">>,
      <<"}", "prose", "{">>,
      <<Fence>>,
      <<Fence, "json", "\n", Fence>> }

ScoreMembers ==
    { JAbsent, JNaN, JInf(1), JInf(-1), JNumStr(85000), JText, JNull,
      JBool(1), JList, JBigInt,
      JNum(-5000), JNum(-4), JNum(0), JNum(12344), JNum(12346), JNum(77000),
      JNum(100000), JNum(100004), JNum(100006), JNum(150000) }

ReasonMembers == {NoReason, Reason(<<"o", "k">>), Reason(<<" ", "o", "k", "\n">>)}

\* Every reply the model is taken to give.
ModelReplies ==
    {Reply(sh, sc, rs) : sh \in MemberShapes, sc \in ScoreMembers, rs \in ReasonMembers}
    \cup {Reply(sh, JAbsent, NoReason) : sh \in BareShapes}

\* The replies drawn while a whole batch is followed.
BatchReplies ==
    { Reply(<<"{", "B", "}">>, JNum(77000), Reason(<<"o", "k">>)),
      Reply(<<Fence, "json", "\n", "{", "B", "}", "\n", Fence>>, JNum(150000), NoReason),
      Reply(<<"prose", " ", "prose">>, JAbsent, NoReason),
      Reply(<<"{", "B", "}">>, JText, Reason(<<"o", "k">>)) }


\* ------------------------------------------------------ response list
\* The identifier of line 218: the first ten hex digits of the SHA-1 of
\* "name:len(text)", taken to be free of collisions, so that two identifiers
\* are equal exactly when name and text length are.
CandidateId(name, text) == <<name, Len(text)>>

\* Lines 217-222.
CandidateRecord(name, text, score) ==
    [id |-> CandidateId(name, text), name |-> name, score |-> score, url |-> "null"]

RECURSIVE InsertDesc(_, _)
InsertDesc(sorted, x) ==
    IF sorted = <<>> THEN <<x>>
    ELSE IF Lt(Head(sorted).score, x.score) THEN <<x>> \o sorted
    ELSE <<Head(sorted)>> \o InsertDesc(Tail(sorted), x)

RECURSIVE SortFrom(_, _)
SortFrom(sorted, rest) ==
    IF rest = <<>> THEN sorted
    ELSE SortFrom(InsertDesc(sorted, Head(rest)), Tail(rest))

\* A plausible slip: the list returned in upload order.
SortNone(rs) == rs

\* Line 225: results.sort(key=score, reverse=True), a stable sort: records of
\* equal score keep their order.
SortByScoreDesc(rs) == SortFrom(<<>>, rs)

\* ------------------------------------------------------------ requests
FileNames ==
    { <<"a", ".", "p", "d", "f">>,
      <<"u", "/", "B", ".", "P", "D", "F">>,
      <<"n", ".", "t", "x", "t">> }

FileBatches == UNION {[1..n -> FileNames] : n \in 0..MaxFiles}

QualitiesInputs ==
    { <<>>,
      <<" ", "\n">>,
      <<" ", "g", "o", "\n", "\n", "j", "s", " ">> }

\* ---------------------------------------------------------------- state
VARIABLES
    USE_OPENAI,       \* line 4: the scoring switch
    OPENAI_API_KEY,   \* line 51: whether the credential is set
    pdfminer,         \* lines 46-49: whether the secondary extractor is installed
    files,            \* the uploaded files' names, in upload order
    qualities,        \* the qualities form field
    qualities_text,   \* line 195
    pc,               \* where the handler is: idle, loop, score, fallback, done
    idx,              \* the position in files of the candidate in hand
    text,             \* line 204: the extracted text of the candidate in hand
    extraction,       \* what extract_pdf_text did for the candidate in hand
    raw,              \* the reply the scorer invocation last made received, if any
    result,           \* the dict that invocation returned, if it returned
    calls,            \* the model calls that invocation made, with their outcomes
    results,          \* line 197: the list under construction, then the response
    status,           \* the HTTP status the request ended with, 0 while it runs
    detail,           \* the error detail
    n_read,           \* files read and extracted so far
    n_scored,         \* scorer invocations so far
    model_called      \* whether the external model has been called so far

vars == <<USE_OPENAI, OPENAI_API_KEY, pdfminer, files, qualities, qualities_text,
          pc, idx, text, extraction, raw, result, calls, results, status, detail,
          n_read, n_scored, model_called>>

config == <<USE_OPENAI, OPENAI_API_KEY, pdfminer>>
request == <<files, qualities>>

\* Line 52.
client == USE_OPENAI /\ OPENAI_API_KEY

NoExtraction ==
    [reader |-> "ok", miner |-> "not_called", primary |-> <<>>, tried |-> FALSE, text |-> <<>>]

\* The server as constructed, no request taken yet.
Init ==
    /\ USE_OPENAI \in BOOLEAN
    /\ OPENAI_API_KEY \in BOOLEAN
    /\ pdfminer \in BOOLEAN
    /\ files = <<>>
    /\ qualities = <<>>
    /\ qualities_text = <<>>
    /\ pc = "idle"
    /\ idx = 0
    /\ text = <<>>
    /\ extraction = NoExtraction
    /\ raw = <<>>
    /\ result = <<>>
    /\ calls = <<>>
    /\ results = <<>>
    /\ status = 0
    /\ detail = ""
    /\ n_read = 0
    /\ n_scored = 0
    /\ model_called = FALSE

\* raise HTTPException(status_code, detail), and an exception FastAPI turns
\* into a 500: the request ends, the list built so far and the candidate in
\* hand are dropped.
Abort(code, msg) ==
    /\ pc' = "done"
    /\ status' = code
    /\ detail' = msg
    /\ results' = <<>>
    /\ text' = <<>>
    /\ extraction' = NoExtraction

\* A plausible slip: the qualities tested before the files.
ValidationErrorSwapped(fs, q) ==
    IF Strip(q) = <<>> THEN "Qualities are required."
    ELSE IF fs = <<>> THEN "No files uploaded."
    ELSE ""

\* Lines 186-189: the detail of the 400 raised, "" when none is.
ValidationError(fs, q) ==
    IF fs = <<>> THEN "No files uploaded."
    ELSE IF Strip(q) = <<>> THEN "Qualities are required."
    ELSE ""

\* Lines 186-197: the request arrives and is validated.
Validate ==
    /\ pc = "idle"
    /\ \E fs \in FileBatches, q \in QualitiesInputs :
         /\ files' = fs
         /\ qualities' = q
         /\ IF ValidationError(fs, q) # ""
            THEN /\ Abort(400, ValidationError(fs, q))
                 /\ UNCHANGED <<qualities_text, idx>>
            ELSE /\ qualities_text' = QualitiesText(q)
                 /\ results' = <<>>
                 /\ idx' = 1
                 /\ pc' = "loop"
                 /\ UNCHANGED <<status, detail, text, extraction>>
    /\ UNCHANGED <<config, raw, result, calls, n_read, n_scored, model_called>>

\* A plausible slip: the extension compared without lower().
IsPdfNameCaseSensitive(filename) == EndsWith(filename, <<".", "p", "d", "f">>)

\* The filename test of line 199.
IsPdfName(filename) == EndsWith(Lower(filename), <<".", "p", "d", "f">>)

\* Lines 198-205: the loop takes the next file: the filename test, then the
\* read and the extraction.
ReadAndExtract ==
    /\ pc = "loop"
    /\ raw' = <<>>
    /\ result' = <<>>
    /\ calls' = <<>>
    /\ IF ~IsPdfName(files[idx])
       THEN /\ Abort(400, "Only PDFs allowed")
            /\ UNCHANGED n_read
       ELSE \E done \in {extract_pdf_text(content, pdfminer) : content \in Contents} :
              /\ extraction' = done
              /\ text' = done.text
              /\ n_read' = n_read + 1
              /\ pc' = "score"
              /\ UNCHANGED <<status, detail, results>>
    /\ UNCHANGED <<config, request, qualities_text, idx, n_scored, model_called>>

\* Lines 217-226: the record is appended; after the last file the list is
\* sorted and returned.
AppendResult(score) ==
    LET name == CandidateName(files[idx])
        appended == Append(results, CandidateRecord(name, text, score))
    IN /\ text' = <<>>
       /\ extraction' = NoExtraction
       /\ IF idx = Len(files)
          THEN /\ results' = SortByScoreDesc(appended)
               /\ pc' = "done"
               /\ status' = 200
               /\ UNCHANGED <<idx, detail>>
          ELSE /\ results' = appended
               /\ pc' = "loop"
               /\ idx' = idx + 1
               /\ UNCHANGED <<status, detail>>

\* Lines 213-215: the mock scorer.
MockScore ==
    /\ pc = "score"
    /\ ~USE_OPENAI
    /\ n_scored' = n_scored + 1
    /\ AppendResult(mock_score_candidate(CandidateName(files[idx]), qualities_text))
    /\ UNCHANGED <<config, request, qualities_text, raw, result, calls, n_read,
                   model_called>>

\* The call of line 146 or 159 with how it ended: a reply, a TypeError, or
\* another exception.
ModelCall(mode, outcome) ==
    [mode |-> mode,
     messages |-> Messages(qualities_text, text, CandidateName(files[idx])),
     outcome |-> outcome]

\* A plausible slip: use_json_mode left TRUE on the fallback path.
ScoreResultFlagStuck(reply, use_json_mode) ==
    [score |-> Clamp(ParseReply(reply).score),
     reason |-> ParseReply(reply).reason,
     json_mode |-> TRUE]

\* The dict openai_score_cv returns (lines 144, 158, 170-178).
ScoreResult(reply, use_json_mode) ==
    [score |-> Clamp(ParseReply(reply).score),
     reason |-> ParseReply(reply).reason,
     json_mode |-> use_json_mode]

\* Lines 155/167 to 178, then 209-226: the reply is parsed and clamped, the
\* record appended.
TakeReply(reply, use_json_mode) ==
    /\ raw' = <<reply>>
    /\ result' = <<ScoreResult(reply, use_json_mode)>>
    /\ AppendResult(result'[1].score)

\* Lines 207-208 and 121-155: openai_score_cv up to the end of the structured
\* call.  The call returns a reply, raises TypeError, or raises something else.
StructuredCall(replies) ==
    /\ pc = "score"
    /\ USE_OPENAI
    /\ n_scored' = n_scored + 1
    /\ IF ~client
       THEN /\ Abort(500, "OpenAI client not initialized.")
            /\ UNCHANGED <<idx, raw, result, calls, model_called>>
       ELSE IF ~OPENAI_API_KEY
       THEN /\ Abort(500, "OPENAI_API_KEY not set on server.")
            /\ UNCHANGED <<idx, raw, result, calls, model_called>>
       ELSE /\ model_called' = TRUE
            /\ \/ /\ calls' = <<ModelCall("json_object", "reply")>>
                  /\ \E reply \in replies : TakeReply(reply, TRUE)
               \/ /\ calls' = <<ModelCall("json_object", "TypeError")>>
                  /\ pc' = "fallback"
                  /\ UNCHANGED <<idx, raw, result, results, status, detail,
                                 text, extraction>>
               \/ /\ calls' = <<ModelCall("json_object", "error")>>
                  /\ Abort(500, "Internal Server Error")
                  /\ UNCHANGED <<idx, raw, result>>
    /\ UNCHANGED <<config, request, qualities_text, n_read>>

\* Lines 156-167: the unstructured call after a TypeError.  It returns a reply
\* or raises.
UnstructuredCall(replies) ==
    /\ pc = "fallback"
    /\ model_called' = TRUE
    /\ \/ /\ calls' = Append(calls, ModelCall("plain", "reply"))
          /\ \E reply \in replies : TakeReply(reply, FALSE)
       \/ /\ calls' = Append(calls, ModelCall("plain", "error"))
          /\ Abort(500, "Internal Server Error")
          /\ UNCHANGED <<idx, raw, result>>
    /\ UNCHANGED <<config, request, qualities_text, n_read, n_scored>>

Next ==
    \/ Validate
    \/ ReadAndExtract
    \/ MockScore
    \/ StructuredCall(BatchReplies)
    \/ UnstructuredCall(BatchReplies)

Spec == Init /\ [][Next]_vars

\* --------------------------------------------- the scorer on its own
\* The handler at the call of openai_score_cv (line 208) for a one-file
\* request, with every reply of ModelReplies open to the model.
InitScorer ==
    /\ USE_OPENAI = TRUE
    /\ OPENAI_API_KEY \in BOOLEAN
    /\ pdfminer \in BOOLEAN
    /\ files \in {fs \in FileBatches : Len(fs) = 1 /\ IsPdfName(fs[1])}
    /\ qualities \in {q \in QualitiesInputs : Strip(q) # <<>>}
    /\ qualities_text = QualitiesText(qualities)
    /\ pc = "score"
    /\ idx = 1
    /\ extraction \in {extract_pdf_text(content, pdfminer) : content \in Contents}
    /\ text = extraction.text
    /\ raw = <<>>
    /\ result = <<>>
    /\ calls = <<>>
    /\ results = <<>>
    /\ status = 0
    /\ detail = ""
    /\ n_read = 1
    /\ n_scored = 0
    /\ model_called = FALSE

NextScorer ==
    \/ StructuredCall(ModelReplies)
    \/ UnstructuredCall(ModelReplies)

SpecScorer == InitScorer /\ [][NextScorer]_vars


\* ============================================================ properties
\* a >= b on two finite scores.
ScoreGe(a, b) == a.k = "num" /\ b.k = "num" /\ a.v >= b.v

Orderings(n) ==
    {p \in [1..n -> 1..n] : \A i, j \in 1..n : p[i] = p[j] => i = j}

\* rs holds exactly one record for each file of fs, named after it.
RecordsMatchFiles(rs, fs) ==
    /\ Len(rs) = Len(fs)
    /\ \E p \in Orderings(Len(fs)) :
         \A i \in 1..Len(fs) : rs[p[i]].name = CandidateName(fs[i])

HasNonPdf(fs) ==
    \E i \in 1..Len(fs) : ~EndsWith(Lower(fs[i]), <<".", "p", "d", "f">>)

\* The reply cannot be read as a score/reason object: it is no JSON, it is a
\* JSON value that is no object, or its score is a value float() rejects.
Unparseable(reply) ==
    \/ coerce_json_from_model(reply.toks) \in {"error", "value"}
    \/ /\ coerce_json_from_model(reply.toks) = "object"
       /\ reply.score.t \in {"text", "null", "list", "bigint"}

\* C1: every successful response is ordered by score descending: each record's
\* score is greater than or equal to the score of the record after it.
C1_SortedByScoreDescending ==
    status = 200 =>
        \A i \in 1..(Len(results) - 1) :
            ScoreGe(results[i].score, results[i + 1].score)

\* C1 witness: a two-file response whose second upload scored higher and is
\* listed first.
C1_Witness ==
    /\ status = 200
    /\ Len(results) = 2
    /\ CandidateName(files[1]) # CandidateName(files[2])
    /\ results[1].name = CandidateName(files[2])
    /\ results[2].name = CandidateName(files[1])
    /\ results[1].score.v > results[2].score.v

\* C2: a request with qualities given and a non-PDF filename among its files
\* ends with a 400 and no candidate of it has been scored: no scorer was
\* invoked and no call to the external model made.
C2_NoScoringBeforeNonPdfError ==
    (pc = "done" /\ Strip(qualities) # <<>> /\ HasNonPdf(files)) =>
        /\ status = 400
        /\ n_scored = 0
        /\ ~model_called

\* C3: a request ends with a response holding exactly one record per uploaded
\* file, named after it, or with an error that carries no record and was raised
\* before any candidate was extracted or scored.
C3_NoPartialResults ==
    pc = "done" =>
        \/ status = 200 /\ RecordsMatchFiles(results, files)
        \/ /\ status \in {400, 500}
           /\ results = <<>>
           /\ n_read = 0
           /\ n_scored = 0

C5_ParseFailureIsNeutral ==
    \A i \in 1..Len(raw) :
        Unparseable(raw[i]) =>
            /\ Len(result) = 1
            /\ result[1].score = Num(50000)
            /\ result[1].reason = ParseErrorReason
            /\ IF pc = "done"
               THEN /\ status = 200
                    /\ RecordsMatchFiles(results, files)
                    /\ \E k \in 1..Len(results) :
                         /\ results[k].name = CandidateName(files[Len(files)])
                         /\ results[k].score = Num(50000)
               ELSE /\ pc = "loop"
                    /\ status = 0
                    /\ idx = Len(results) + 1
                    /\ idx <= Len(files)
                    /\ results[idx - 1].name = CandidateName(files[idx - 1])
                    /\ results[idx - 1].score = Num(50000)

\* C5 witness: the first of two candidates got an unparseable reply and the
\* handler is back in the loop for the second.
C5_Witness ==
    /\ pc = "loop"
    /\ idx = 2
    /\ raw # <<>>
    /\ Unparseable(raw[1])
    /\ results[1].score = Num(50000)

\* C6 as stated: with external scoring on and no client, every request with at
\* least one file and non-empty qualities ends with a 500, the model not called.
C6_EveryRequestEnds500 ==
    (USE_OPENAI /\ ~OPENAI_API_KEY /\ pc = "done" /\ files # <<>> /\ qualities # <<>>) =>
        /\ status = 500
        /\ ~model_called

\* C6 as amended: with external scoring on and no client, every request with
\* at least one file, PDF filenames only and qualities that are not blank ends
\* with a 500, the model not called.
C6_ValidRequestEnds500 ==
    (/\ USE_OPENAI
     /\ ~OPENAI_API_KEY
     /\ pc = "done"
     /\ files # <<>>
     /\ ~HasNonPdf(files)
     /\ Strip(qualities) # <<>>) =>
        /\ status = 500
        /\ ~model_called

\* C6 witness: such a request has ended with the 500 of the client test.
C6_Witness ==
    /\ USE_OPENAI
    /\ ~OPENAI_API_KEY
    /\ pc = "done"
    /\ Len(files) = 2
    /\ ~HasNonPdf(files)
    /\ Strip(qualities) # <<>>
    /\ status = 500
    /\ detail = "OpenAI client not initialized."
    /\ n_scored = 1

\* C7: in a successful response, records of two different uploaded files carry
\* different identifiers.
C7_IdsDistinct ==
    status = 200 =>
        \A i, j \in 1..Len(results) : i # j => results[i].id # results[j].id

\* C8: a request with no files, or with qualities that are empty or white
\* space only, ends with a 400 before any file is read, extracted or scored;
\* the files are tested before the qualities.
C8_EmptyInputRejected ==
    (pc # "idle" /\ (files = <<>> \/ Strip(qualities) = <<>>)) =>
        /\ pc = "done"
        /\ status = 400
        /\ detail = (IF files = <<>> THEN "No files uploaded."
                     ELSE "Qualities are required.")
        /\ n_read = 0
        /\ n_scored = 0
        /\ ~model_called
        /\ results = <<>>

\* C8 witness: a request with no files and blank qualities was rejected for
\* its files.
C8_Witness ==
    /\ pc = "done"
    /\ files = <<>>
    /\ qualities # <<>>
    /\ Strip(qualities) = <<>>
    /\ status = 400
    /\ detail = "No files uploaded."

\* C9: extraction never fails the request.  Whatever the two extractors do,
\* extract_pdf_text returns a str, empty when both fail; the secondary
\* extractor is called exactly when it is installed and the primary text is
\* empty; every extracted candidate is handed to the scorer, and a successful
\* response holds a record for every file.
C9_ExtractionNeverFatal ==
    /\ pc \in {"score", "fallback"} =>
         /\ status = 0
         /\ text = extraction.text
         /\ n_read = idx
         /\ extraction.tried <=> (pdfminer /\ extraction.primary = <<>>)
    /\ extraction.tried => (pdfminer /\ extraction.primary = <<>>)
    /\ extraction.reader = "raise" => extraction.primary = <<>>
    /\ (extraction.primary = <<>> /\ extraction.miner \in {"not_called", "raise", "none"})
         => extraction.text = <<>>
    /\ (extraction.primary # <<>>) => extraction.text = extraction.primary
    /\ IF pc = "score" THEN n_scored = n_read - 1 ELSE n_scored = n_read
    /\ status = 200 =>
         /\ n_read = Len(files)
         /\ RecordsMatchFiles(results, files)

\* C9 witness: both extractors raised on the only file, and the response holds
\* its record, identified by a text length of 0.
C9_Witness ==
    /\ status = 200
    /\ Len(files) = 1
    /\ Len(results) = 1
    /\ results[1].id = <<CandidateName(files[1]), 0>>

\* C10: for each candidate the structured call is made first; the unstructured
\* call is made only after the structured call of that candidate raised
\* TypeError, and with the same messages; at most one call of each mode is
\* made, no other failure is retried, and json_mode is TRUE exactly when the
\* reply used came from the structured call.
C10_StructuredFirst ==
    /\ Len(calls) <= 2
    /\ calls # <<>> => calls[1].mode = "json_object"
    /\ Len(calls) = 2 =>
         /\ calls[2].mode = "plain"
         /\ calls[1].outcome = "TypeError"
         /\ calls[2].outcome # "TypeError"
         /\ calls[2].messages = calls[1].messages
    /\ (Len(calls) = 1 /\ calls[1].outcome = "TypeError") <=> pc = "fallback"
    /\ \A i \in 1..Len(calls) :
         /\ calls[i].outcome = "error" => (i = Len(calls) /\ status = 500)
         /\ calls[i].outcome = "reply" => (i = Len(calls) /\ Len(result) = 1)
    /\ \A i \in 1..Len(result) :
         /\ calls # <<>>
         /\ calls[Len(calls)].outcome = "reply"
         /\ result[i].json_mode <=> calls[Len(calls)].mode = "json_object"

\* C10 witness: a candidate scored on the unstructured call after the
\* structured one raised TypeError.
C10_Witness ==
    /\ status = 200
    /\ Len(calls) = 2
    /\ calls[1].outcome = "TypeError"
    /\ calls[2].outcome = "reply"
    /\ result[1].json_mode = FALSE

====
